---- MODULE Spec2Model ----
(***************************************************************************)
(* The Whiteboard controller of src/src/ts/index.ts as a state machine.    *)
(*                                                                         *)
(* The fields of the class are the variables; every registered event       *)
(* listener is one action, which runs its handler to completion (the       *)
(* handlers are synchronous callbacks on one thread).  The host's list of  *)
(* active contacts (TouchEvent.touches) is the variable touches.           *)
(*                                                                         *)
(* Numbers: JavaScript numbers are modelled as exact rationals <<n, d>> in *)
(* lowest terms with d > 0; <<1,0>>, <<-1,0>> and <<0,0>> stand for        *)
(* Infinity, -Infinity and NaN, which is what a division by zero yields.   *)
(* Rounding of binary floating point is not modelled.  Contact positions   *)
(* are integer pixels, drawn from sets on which Math.sqrt is exact.        *)
(***************************************************************************)
EXTENDS Integers, Sequences, FiniteSets, TLC

----------------------------------------------------------------------------
(* Bounds of the exploration *)

\* behaviours of at most this many events are explored
MaxEvents == 6

\* The positions the host reports, in CSS pixels (clientX, clientY).
P(px, py) == [x |-> px, y |-> py]
\* a lone contact, and the mouse pointer, are at one of these
Singles == {<<P(100, 100)>>, <<P(150, 100)>>}
MousePoints == {P(100, 100), P(150, 100)}
\* two contacts are at one of these pairs: distance 100, 160, 220, 40 and 0, four
\* of them around the midpoint (150,100), and one pair off the horizontal
Pairs ==
    { <<P(100, 100), P(200, 100)>>,
      <<P(100, 100), P(260, 100)>>,
      <<P(40, 100), P(260, 100)>>,
      <<P(130, 100), P(170, 100)>>,
      <<P(150, 100), P(150, 100)>>,
      <<P(100, 100), P(160, 180)>> }
\* three contacts: a third one beside the coinciding pair
Triples == {<<P(150, 100), P(150, 100), P(150, 100)>>}
Configs == Singles \cup Pairs \cup Triples

----------------------------------------------------------------------------
(* Arithmetic on JavaScript numbers *)

Abs(n) == IF n < 0 THEN -n ELSE n
Sign(n) == IF n < 0 THEN -1 ELSE IF n > 0 THEN 1 ELSE 0

RECURSIVE GCD(_, _)
GCD(a, b) == IF b = 0 THEN a ELSE GCD(b, a % b)

\* the number n/d, d /= 0, in lowest terms
Norm(n, d) ==
    LET g == GCD(Abs(n), Abs(d))
    IN  <<(Sign(d) * n) \div g, Abs(d) \div g>>

R(n) == <<n, 1>>
NaN == <<0, 0>>
IsNaN(a) == a = NaN
IsFinite(a) == a[2] /= 0

RNeg(a) == <<-a[1], a[2]>>

RAdd(a, b) ==
    IF IsFinite(a) /\ IsFinite(b) THEN Norm(a[1] * b[2] + b[1] * a[2], a[2] * b[2])
    ELSE IF IsFinite(a) THEN b
    ELSE IF IsFinite(b) THEN a
    ELSE IF a = b THEN a ELSE NaN

RSub(a, b) == RAdd(a, RNeg(b))

RMul(a, b) ==
    IF IsFinite(a) /\ IsFinite(b) THEN Norm(a[1] * b[1], a[2] * b[2])
    ELSE <<Sign(a[1] * b[1]), 0>>

\* 1/a; 1/0 is Infinity, 1/Infinity is 0
RInv(a) ==
    IF ~IsFinite(a) THEN (IF IsNaN(a) THEN NaN ELSE R(0))
    ELSE IF a[1] = 0 THEN <<1, 0>>
    ELSE <<Sign(a[1]) * a[2], Abs(a[1])>>

RDiv(a, b) == RMul(a, RInv(b))

\* a < b and a > b; every comparison with NaN is false
RLt(a, b) == ~IsNaN(a) /\ ~IsNaN(b) /\ a[1] * b[2] < b[1] * a[2]
RGt(a, b) == RLt(b, a)
RLe(a, b) == ~IsNaN(a) /\ ~IsNaN(b) /\ a[1] * b[2] <= b[1] * a[2]

\* Math.min, Math.max, Math.abs
MathMin(a, b) == IF IsNaN(a) \/ IsNaN(b) THEN NaN ELSE IF RLt(b, a) THEN b ELSE a
MathMax(a, b) == IF IsNaN(a) \/ IsNaN(b) THEN NaN ELSE IF RGt(b, a) THEN b ELSE a
MathAbs(a) == <<Abs(a[1]), a[2]>>

\* n is the square of an integer between lo and hi
IsSquareIn(n, lo, hi) == \E r \in lo..hi : r * r = n
\* Math.sqrt of a perfect square n, searched between the legs' bounds lo..hi
SqrtIn(n, lo, hi) == CHOOSE r \in lo..hi : r * r = n

\* Math.hypot(a, b) > t for t >= 0, decided without the root: a*a + b*b > t*t
HypotGt(a, b, t) == RGt(RAdd(RMul(a, a), RMul(b, b)), RMul(t, t))

----------------------------------------------------------------------------
(* Program constants *)

\* private gestureThreshold: number = 10
gestureThreshold == 10
\* the clamp of continueZooming: Math.max(0.2, Math.min(newScale, 5))
ZoomMin == <<1, 5>>
ZoomMax == R(5)
\* setupCanvas: ctx.strokeStyle and ctx.lineWidth; redraw restores them after
\* every drawStrokes (ctx.save / ctx.restore), so they never change
StrokeStyle == "#000000"
LineWidth == 3
\* canvas.getBoundingClientRect(): the canvas fills the window from its origin
RectLeft == 0
RectTop == 0
\* const EmptyCoordinates: Coordinates = { x: 0, y: 0 }
EmptyCoordinates == [x |-> R(0), y |-> R(0)]

----------------------------------------------------------------------------
(* State *)

VARIABLES
    \* fields of Whiteboard
    mode, hasMoved, panStart, offset, lastOffset, strokes, currentStroke,
    scale, lastScale, pinchStartDist, pinchStartMid, pinchStartOffset,
    gestureInitialDist, gestureInitialMid,
    \* what the last redraw() painted on the canvas
    canvas,
    \* the host's active contacts, TouchEvent.touches, in order of landing
    touches,
    \* observers: they record the past and are read by no handler
    pendFrom,   \* the mode in which the last two-contact touchstart arrived
    zoom0,      \* midpoint, view and distance when ZOOMING was last entered
    pan0,       \* midpoint and view when PANNING was last entered
    pen,        \* the single-contact drawing in progress, while nothing else intervenes
    nEvents     \* events delivered so far

fields == <<mode, hasMoved, panStart, offset, lastOffset, strokes, currentStroke,
            scale, lastScale, pinchStartDist, pinchStartMid, pinchStartOffset,
            gestureInitialDist, gestureInitialMid, canvas>>
observers == <<pendFrom, zoom0, pan0, pen, nEvents>>
vars == <<fields, touches, observers>>

\* the Whiteboard object as the handlers see it; currentStroke is <<>> for null
\* and <<s>> for a stroke s
This ==
    [mode |-> mode, hasMoved |-> hasMoved, panStart |-> panStart, offset |-> offset,
     lastOffset |-> lastOffset, strokes |-> strokes, currentStroke |-> currentStroke,
     scale |-> scale, lastScale |-> lastScale, pinchStartDist |-> pinchStartDist,
     pinchStartMid |-> pinchStartMid, pinchStartOffset |-> pinchStartOffset,
     gestureInitialDist |-> gestureInitialDist, gestureInitialMid |-> gestureInitialMid,
     canvas |-> canvas]

\* the fields after a handler returned the object w
Store(w) ==
    /\ mode' = w.mode
    /\ hasMoved' = w.hasMoved
    /\ panStart' = w.panStart
    /\ offset' = w.offset
    /\ lastOffset' = w.lastOffset
    /\ strokes' = w.strokes
    /\ currentStroke' = w.currentStroke
    /\ scale' = w.scale
    /\ lastScale' = w.lastScale
    /\ pinchStartDist' = w.pinchStartDist
    /\ pinchStartMid' = w.pinchStartMid
    /\ pinchStartOffset' = w.pinchStartOffset
    /\ gestureInitialDist' = w.gestureInitialDist
    /\ gestureInitialMid' = w.gestureInitialMid
    /\ canvas' = w.canvas

\* events: a MouseEvent carries clientX, clientY; a TouchEvent carries touches
MouseEvent(p) == [isMouse |-> TRUE, client |-> p, touches |-> <<>>]
TouchEvent(t) == [isMouse |-> FALSE, client |-> [x |-> 0, y |-> 0], touches |-> t]

----------------------------------------------------------------------------
(* Utilities *)

\* a variant that returns the canvas position itself, without the view
getCoordinates_NoTransform(w, e) ==
    LET event == IF e.isMouse THEN e.client ELSE e.touches[1]
    IN  [x |-> RSub(R(event.x), R(RectLeft)), y |-> RSub(R(event.y), R(RectTop))]

\* a variant that divides by the scale before it subtracts the offset
getCoordinates_ScaleFirst(w, e) ==
    LET event == IF e.isMouse THEN e.client ELSE e.touches[1]
    IN  [x |-> RSub(RDiv(RSub(R(event.x), R(RectLeft)), w.scale), w.offset.x),
         y |-> RSub(RDiv(RSub(R(event.y), R(RectTop)), w.scale), w.offset.y)]

\* getCoordinates: e itself for a MouseEvent, else e.touches[0] (every caller
\* passes a TouchEvent with exactly one contact, so changedTouches is not read)
getCoordinates(w, e) ==
    LET event == IF e.isMouse THEN e.client ELSE e.touches[1]
    IN  [x |-> RDiv(RSub(RSub(R(event.x), R(RectLeft)), w.offset.x), w.scale),
         y |-> RDiv(RSub(RSub(R(event.y), R(RectTop)), w.offset.y), w.scale)]

getAverageCoordinates(e) ==
    [x |-> RDiv(R(e.touches[1].x + e.touches[2].x), R(2)),
     y |-> RDiv(R(e.touches[1].y + e.touches[2].y), R(2))]

getPinchDistance(e) ==
    LET dx == e.touches[1].x - e.touches[2].x
        dy == e.touches[1].y - e.touches[2].y
        lo == IF Abs(dx) > Abs(dy) THEN Abs(dx) ELSE Abs(dy)
    IN  R(SqrtIn(dx * dx + dy * dy, lo, Abs(dx) + Abs(dy)))

----------------------------------------------------------------------------
(* Rendering *)

\* redraw and drawStrokes: the canvas is cleared, then every committed stroke
\* and last the current one are stroked under translate(offset), scale(scale)
redraw(w) ==
    [w EXCEPT !.canvas = [offset |-> w.offset, scale |-> w.scale,
                          drawn |-> w.strokes \o w.currentStroke]]

\* the render transform of redraw, ctx.translate(off) then ctx.scale(sc, sc): the
\* logical point p is painted at the canvas position off + sc * p
Render(p, off, sc) ==
    [x |-> RAdd(off.x, RMul(sc, p.x)), y |-> RAdd(off.y, RMul(sc, p.y))]

----------------------------------------------------------------------------
(* Drawing *)

\* a variant without the guard on the mode
startDrawing_NoGuard(w, e) ==
    [w EXCEPT !.mode = "drawing",
              !.hasMoved = FALSE,
              !.currentStroke = <<[points |-> <<getCoordinates(w, e)>>,
                                   color |-> StrokeStyle,
                                   width |-> LineWidth]>>]

\* a variant that puts the view back to the identity before a stroke begins
startDrawing_ResetsView(w, e) ==
    IF w.mode /= "idle" THEN w
    ELSE [w EXCEPT !.mode = "drawing",
                   !.hasMoved = FALSE,
                   !.offset = EmptyCoordinates,
                   !.scale = R(1),
                   !.currentStroke = <<[points |-> <<getCoordinates(w, e)>>,
                                        color |-> StrokeStyle,
                                        width |-> LineWidth]>>]

startDrawing(w, e) ==
    IF w.mode /= "idle" THEN w
    ELSE [w EXCEPT !.mode = "drawing",
                   !.hasMoved = FALSE,
                   !.currentStroke = <<[points |-> <<getCoordinates(w, e)>>,
                                        color |-> StrokeStyle,
                                        width |-> LineWidth]>>]

\* a variant that marks the stroke as moved without pushing the point
draw_NoPush(w, e) ==
    IF w.mode /= "drawing" THEN w
    ELSE redraw([w EXCEPT !.hasMoved = TRUE])

draw(w, e) ==
    IF w.mode /= "drawing" THEN w
    ELSE LET coords == getCoordinates(w, e)
             pushed == IF w.currentStroke = <<>> THEN <<>>
                       ELSE <<[w.currentStroke[1] EXCEPT
                                  !.points = Append(@, coords)]>>
         IN  redraw([w EXCEPT !.hasMoved = TRUE, !.currentStroke = pushed])

\* a variant that pushes the stroke a second time
stopDrawing_PushTwice(w) ==
    IF w.mode /= "drawing" THEN w
    ELSE LET w1 == IF w.currentStroke /= <<>>
                   THEN [w EXCEPT !.strokes = Append(Append(@, w.currentStroke[1]),
                                                     w.currentStroke[1]),
                                  !.currentStroke = <<>>]
                   ELSE w
         IN  [redraw(w1) EXCEPT !.mode = "idle"]

\* a variant that puts the stroke at the front of the list (unshift for push)
stopDrawing_Unshift(w) ==
    IF w.mode /= "drawing" THEN w
    ELSE LET w1 == IF w.currentStroke /= <<>>
                   THEN [w EXCEPT !.strokes = <<w.currentStroke[1]>> \o @,
                                  !.currentStroke = <<>>]
                   ELSE w
         IN  [redraw(w1) EXCEPT !.mode = "idle"]

stopDrawing(w) ==
    IF w.mode /= "drawing" THEN w
    ELSE LET w1 == IF w.currentStroke /= <<>>
                   THEN [w EXCEPT !.strokes = Append(@, w.currentStroke[1]),
                                  !.currentStroke = <<>>]
                   ELSE w
         IN  [redraw(w1) EXCEPT !.mode = "idle"]

\* variants that do not look at hasMoved
cutoffDrawing_AlwaysCommit(w) == stopDrawing(w)
cutoffDrawing_AlwaysDiscard(w) == redraw([w EXCEPT !.currentStroke = <<>>])

cutoffDrawing(w) ==
    IF w.hasMoved THEN stopDrawing(w)
    ELSE redraw([w EXCEPT !.currentStroke = <<>>])

----------------------------------------------------------------------------
(* Zooming *)

\* a variant that applies the pinch since the touchstart when it classifies
startZooming_ScalesNow(w, e) ==
    [w EXCEPT !.mode = "zooming",
              !.pinchStartDist = w.gestureInitialDist,
              !.lastScale = w.scale,
              !.pinchStartMid = getAverageCoordinates(e),
              !.pinchStartOffset = w.offset,
              !.scale = RMul(w.scale, RDiv(getPinchDistance(e), w.gestureInitialDist))]

startZooming(w, e) ==
    [w EXCEPT !.mode = "zooming",
              !.pinchStartDist = getPinchDistance(e),
              !.lastScale = w.scale,
              !.pinchStartMid = getAverageCoordinates(e),
              !.pinchStartOffset = w.offset]

\* the body of continueZooming with the clamp and the ratio as parameters
ZoomWith(w, e, newScale, scaleRatio) ==
    LET mid == getAverageCoordinates(e)
        dx == RDiv(RSub(mid.x, w.pinchStartMid.x), w.scale)
        dy == RDiv(RSub(mid.y, w.pinchStartMid.y), w.scale)
    IN  redraw([w EXCEPT
          !.offset =
            [x |-> RSub(RAdd(w.pinchStartOffset.x, dx),
                        RMul(RSub(w.pinchStartMid.x, w.pinchStartOffset.x),
                             RSub(scaleRatio, R(1)))),
             y |-> RSub(RAdd(w.pinchStartOffset.y, dy),
                        RMul(RSub(w.pinchStartMid.y, w.pinchStartOffset.y),
                             RSub(scaleRatio, R(1))))],
          !.scale = newScale])

\* a variant without the early return on a zero baseline distance
continueZooming_NoZeroGuard(w, e) ==
    LET raw == RMul(w.lastScale, RDiv(getPinchDistance(e), w.pinchStartDist))
        newScale == MathMax(ZoomMin, MathMin(raw, ZoomMax))
    IN  ZoomWith(w, e, newScale, RDiv(newScale, w.lastScale))

\* a variant without the clamp
continueZooming_NoClamp(w, e) ==
    IF w.pinchStartDist = R(0) THEN w
    ELSE LET newScale == RMul(w.lastScale, RDiv(getPinchDistance(e), w.pinchStartDist))
         IN  ZoomWith(w, e, newScale, RDiv(newScale, w.lastScale))

\* a variant that takes the ratio of the offset from the scale before the clamp
continueZooming_RatioBeforeClamp(w, e) ==
    IF w.pinchStartDist = R(0) THEN w
    ELSE LET raw == RMul(w.lastScale, RDiv(getPinchDistance(e), w.pinchStartDist))
         IN  ZoomWith(w, e, MathMax(ZoomMin, MathMin(raw, ZoomMax)),
                      RDiv(raw, w.lastScale))

continueZooming(w, e) ==
    LET newDist == getPinchDistance(e)
    IN  IF w.pinchStartDist = R(0) THEN w
        ELSE
        LET newScale == MathMax(ZoomMin,
                            MathMin(RMul(w.lastScale, RDiv(newDist, w.pinchStartDist)),
                                    ZoomMax))
            mid == getAverageCoordinates(e)
            dx == RDiv(RSub(mid.x, w.pinchStartMid.x), w.scale)
            dy == RDiv(RSub(mid.y, w.pinchStartMid.y), w.scale)
            scaleRatio == RDiv(newScale, w.lastScale)
        IN  redraw([w EXCEPT
              !.offset =
                [x |-> RSub(RAdd(w.pinchStartOffset.x, dx),
                            RMul(RSub(w.pinchStartMid.x, w.pinchStartOffset.x),
                                 RSub(scaleRatio, R(1)))),
                 y |-> RSub(RAdd(w.pinchStartOffset.y, dy),
                            RMul(RSub(w.pinchStartMid.y, w.pinchStartOffset.y),
                                 RSub(scaleRatio, R(1))))],
              !.scale = newScale])

stopZooming(w) == [w EXCEPT !.mode = "idle", !.pinchStartDist = R(0)]

----------------------------------------------------------------------------
(* Panning *)

startPanning(w, e) ==
    [w EXCEPT !.mode = "panning",
              !.panStart = getAverageCoordinates(e),
              !.lastOffset = w.offset]

\* a variant that adds the displacement to the current offset, not the baseline
continuePanning_Accumulates(w, e) ==
    LET currentCoords == getAverageCoordinates(e)
    IN  redraw([w EXCEPT
          !.offset = [x |-> RAdd(w.offset.x, RSub(currentCoords.x, w.panStart.x)),
                      y |-> RAdd(w.offset.y, RSub(currentCoords.y, w.panStart.y))]])

continuePanning(w, e) ==
    LET currentCoords == getAverageCoordinates(e)
    IN  redraw([w EXCEPT
          !.offset = [x |-> RAdd(w.lastOffset.x, RSub(currentCoords.x, w.panStart.x)),
                      y |-> RAdd(w.lastOffset.y, RSub(currentCoords.y, w.panStart.y))]])

stopPanning(w) == [w EXCEPT !.mode = "idle", !.panStart = [x |-> R(0), y |-> R(0)]]

----------------------------------------------------------------------------
(* Touch events *)

handleTouchStart(w, e) ==
    IF Len(e.touches) = 2
    THEN LET w1 == IF w.mode = "drawing" THEN cutoffDrawing(w) ELSE w
         IN  [w1 EXCEPT !.mode = "pending",
                        !.gestureInitialDist = getPinchDistance(e),
                        !.gestureInitialMid = getAverageCoordinates(e)]
    ELSE IF Len(e.touches) = 1 THEN startDrawing(w, e)
    ELSE w

\* a variant that looks at the midpoint before the distance
handleTouchMove_PanFirst(w, e) ==
    IF Len(e.touches) = 2
    THEN IF w.mode = "pending"
         THEN IF HypotGt(RSub(getAverageCoordinates(e).x, w.gestureInitialMid.x),
                         RSub(getAverageCoordinates(e).y, w.gestureInitialMid.y),
                         R(gestureThreshold))
              THEN startPanning(w, e)
              ELSE IF RGt(MathAbs(RSub(getPinchDistance(e), w.gestureInitialDist)),
                          R(gestureThreshold))
              THEN startZooming(w, e)
              ELSE w
         ELSE IF w.mode = "zooming" THEN continueZooming(w, e)
         ELSE IF w.mode = "panning" THEN continuePanning(w, e)
         ELSE w
    ELSE IF w.mode = "drawing" /\ Len(e.touches) = 1 THEN draw(w, e)
    ELSE w

\* a variant that keeps classifying while PANNING: a pinch turns the pan into a zoom
handleTouchMove_Reclassifies(w, e) ==
    IF Len(e.touches) = 2 /\ w.mode = "panning"
          /\ RGt(MathAbs(RSub(getPinchDistance(e), w.gestureInitialDist)),
                 R(gestureThreshold))
    THEN startZooming(w, e)
    ELSE IF Len(e.touches) = 2
    THEN IF w.mode = "pending"
         THEN IF RGt(MathAbs(RSub(getPinchDistance(e), w.gestureInitialDist)),
                     R(gestureThreshold))
              THEN startZooming(w, e)
              ELSE IF HypotGt(RSub(getAverageCoordinates(e).x, w.gestureInitialMid.x),
                              RSub(getAverageCoordinates(e).y, w.gestureInitialMid.y),
                              R(gestureThreshold))
              THEN startPanning(w, e)
              ELSE w
         ELSE IF w.mode = "zooming" THEN continueZooming(w, e)
         ELSE IF w.mode = "panning" THEN continuePanning(w, e)
         ELSE w
    ELSE IF w.mode = "drawing" /\ Len(e.touches) = 1 THEN draw(w, e)
    ELSE w

handleTouchMove(w, e) ==
    IF Len(e.touches) = 2
    THEN IF w.mode = "pending"
         THEN LET dist == getPinchDistance(e)
                  mid == getAverageCoordinates(e)
                  distDelta == MathAbs(RSub(dist, w.gestureInitialDist))
              IN  IF RGt(distDelta, R(gestureThreshold)) THEN startZooming(w, e)
                  ELSE IF HypotGt(RSub(mid.x, w.gestureInitialMid.x),
                                  RSub(mid.y, w.gestureInitialMid.y),
                                  R(gestureThreshold))
                       THEN startPanning(w, e)
                  ELSE w
         ELSE IF w.mode = "zooming" THEN continueZooming(w, e)
         ELSE IF w.mode = "panning" THEN continuePanning(w, e)
         ELSE w
    ELSE IF w.mode = "drawing" /\ Len(e.touches) = 1 THEN draw(w, e)
    ELSE w

handleTouchEnd(w, e) ==
    IF w.mode \in {"zooming", "panning"} /\ Len(e.touches) < 2
    THEN LET w1 == IF w.mode = "zooming" THEN stopZooming(w) ELSE w
         IN  IF w1.mode = "panning" THEN stopPanning(w1) ELSE w1
    ELSE IF w.mode = "drawing" /\ Len(e.touches) = 0 THEN stopDrawing(w)
    ELSE w

----------------------------------------------------------------------------
(* Observers *)

\* the logical point drawn at the screen point p under the view (off, sc):
\* the inverse of the render transform translate(off), scale(sc)
Logical(p, off, sc) ==
    [x |-> RDiv(RSub(p.x, off.x), sc), y |-> RDiv(RSub(p.y, off.y), sc)]
\* a contact position as Coordinates
Pt(p) == [x |-> R(p.x), y |-> R(p.y)]
\* midpoint and distance of the first two contacts of t
Midpoint(t) == [x |-> RDiv(R(t[1].x + t[2].x), R(2)), y |-> RDiv(R(t[1].y + t[2].y), R(2))]
Distance(t) == getPinchDistance(TouchEvent(t))
\* x clamped to the zoom band [0.2, 5]
Clamped(x) == IF RLt(x, ZoomMin) THEN ZoomMin ELSE IF RGt(x, ZoomMax) THEN ZoomMax ELSE x
\* the stroke that holds the screen points of path, seen under the view (off, sc)
StrokeOf(path, off, sc) ==
    [points |-> [i \in 1..Len(path) |-> Logical(Pt(path[i]), off, sc)],
     color |-> StrokeStyle, width |-> LineWidth]

NoPen == [phase |-> "none", src |-> "none", path |-> <<>>, strokes0 |-> <<>>]
NoGesture == [mid |-> EmptyCoordinates, offset |-> EmptyCoordinates, scale |-> R(1),
              dist |-> R(0), L |-> EmptyCoordinates]

\* pen follows one single-contact drawing: "down" from the event that begins the
\* stroke while only moves of the same contact follow, then "up" when that
\* contact lifts, or "second" when a second contact lands and "secondUp" when
\* the second contact is gone again; every other event ends the observation
PenNext(kind, e, w, gone) ==
    LET pt == IF e.isMouse THEN e.client ELSE e.touches[1]
    IN  IF mode = "idle" /\ w.mode = "drawing"
        THEN [phase |-> "down", src |-> IF e.isMouse THEN "mouse" ELSE "touch",
              path |-> <<pt>>, strokes0 |-> strokes]
        ELSE IF pen.phase = "down" /\ \/ pen.src = "mouse" /\ kind = "mousemove"
                                      \/ pen.src = "touch" /\ kind = "touchmove"
        THEN [pen EXCEPT !.path = Append(@, pt)]
        ELSE IF pen.phase = "down" /\ \/ pen.src = "mouse" /\ kind \in {"mouseup", "mouseout"}
                                      \/ /\ pen.src = "touch"
                                         /\ kind \in {"touchend", "touchcancel"}
                                         /\ Len(e.touches) = 0
        THEN [pen EXCEPT !.phase = "up"]
        ELSE IF pen.phase = "down" /\ pen.src = "touch" /\ kind = "touchstart"
                /\ Len(e.touches) = 2
        THEN [pen EXCEPT !.phase = "second"]
        ELSE IF pen.phase = "second" /\ kind \in {"touchend", "touchcancel"} /\ gone = {2}
        THEN [pen EXCEPT !.phase = "secondUp"]
        ELSE NoPen

\* the view and the pinch at the event e that enters a two-contact mode
Baseline(e) ==
    [mid |-> Midpoint(e.touches), offset |-> offset, scale |-> scale,
     dist |-> Distance(e.touches),
     L |-> Logical(Midpoint(e.touches), offset, scale)]

\* one listener has run on event e and left the object w and the contacts t
Step(kind, e, w, t, gone) ==
    /\ nEvents < MaxEvents
    /\ nEvents' = nEvents + 1
    /\ Store(w)
    /\ touches' = t
    /\ pendFrom' = IF kind = "touchstart" /\ Len(t) = 2 THEN mode
                   ELSE IF w.mode = "pending" THEN pendFrom ELSE "none"
    /\ zoom0' = IF w.mode /= "zooming" THEN NoGesture
                ELSE IF mode /= "zooming" THEN Baseline(e) ELSE zoom0
    /\ pan0' = IF w.mode /= "panning" THEN NoGesture
               ELSE IF mode /= "panning" THEN Baseline(e) ELSE pan0
    /\ pen' = PenNext(kind, e, w, gone)

----------------------------------------------------------------------------
(* The host: which events it delivers *)

\* the pinch distance of the first two contacts of t is an integer
ExactPinch(t) ==
    Len(t) >= 2 =>
        LET dx == Abs(t[1].x - t[2].x)
            dy == Abs(t[1].y - t[2].y)
        IN  IsSquareIn(dx * dx + dy * dy, 0, dx + dy)

\* the contacts of t that are not at the indices in gone, in order
RECURSIVE Remaining(_, _, _)
Remaining(t, gone, i) ==
    IF i > Len(t) THEN <<>>
    ELSE (IF i \in gone THEN <<>> ELSE <<t[i]>>) \o Remaining(t, gone, i + 1)

----------------------------------------------------------------------------
(* Actions: one per registered listener *)

\* canvas.addEventListener('mousedown', startDrawing)
MouseDown ==
    \E p \in MousePoints :
        /\ Step("mousedown", MouseEvent(p), startDrawing(This, MouseEvent(p)), touches, {})

\* canvas.addEventListener('mousemove', draw)
MouseMove ==
    \E p \in MousePoints :
        /\ Step("mousemove", MouseEvent(p), draw(This, MouseEvent(p)), touches, {})

\* canvas.addEventListener('mouseup', stopDrawing)
MouseUp ==
    Step("mouseup", MouseEvent(P(0, 0)), stopDrawing(This), touches, {})

\* canvas.addEventListener('mouseout', stopDrawing)
MouseOut ==
    Step("mouseout", MouseEvent(P(0, 0)), stopDrawing(This), touches, {})

\* canvas.addEventListener('touchstart', handleTouchStart): one contact lands, or
\* two land together on the empty surface
TouchStart ==
    \E t \in Configs :
        /\ Len(t) = Len(touches) + 1 \/ (touches = <<>> /\ Len(t) = 2)
        /\ SubSeq(t, 1, Len(touches)) = touches
        /\ ExactPinch(t)
        /\ Step("touchstart", TouchEvent(t), handleTouchStart(This, TouchEvent(t)), t, {})

\* canvas.addEventListener('touchmove', handleTouchMove): the contacts move
TouchMove ==
    \E t \in Configs :
        /\ Len(t) = Len(touches)
        /\ ExactPinch(t)
        /\ Step("touchmove", TouchEvent(t), handleTouchMove(This, TouchEvent(t)), t, {})

\* canvas.addEventListener('touchend', handleTouchEnd): some contacts lift
TouchEnd ==
    \E gone \in (SUBSET (1..Len(touches))) \ {{}} :
        LET t == Remaining(touches, gone, 1)
        IN  /\ ExactPinch(t)
            /\ Step("touchend", TouchEvent(t), handleTouchEnd(This, TouchEvent(t)), t, gone)

\* canvas.addEventListener('touchcancel', handleTouchEnd): the host takes contacts away
TouchCancel ==
    \E gone \in (SUBSET (1..Len(touches))) \ {{}} :
        LET t == Remaining(touches, gone, 1)
        IN  /\ ExactPinch(t)
            /\ Step("touchcancel", TouchEvent(t), handleTouchEnd(This, TouchEvent(t)), t, gone)

----------------------------------------------------------------------------
(* Specification *)

\* the field initialisers of Whiteboard; the constructor paints nothing
Init ==
    /\ mode = "idle"
    /\ hasMoved = FALSE
    /\ panStart = EmptyCoordinates
    /\ offset = EmptyCoordinates
    /\ lastOffset = EmptyCoordinates
    /\ strokes = <<>>
    /\ currentStroke = <<>>
    /\ scale = R(1)
    /\ lastScale = R(1)
    /\ pinchStartDist = R(0)
    /\ pinchStartMid = EmptyCoordinates
    /\ pinchStartOffset = EmptyCoordinates
    /\ gestureInitialDist = R(0)
    /\ gestureInitialMid = EmptyCoordinates
    /\ canvas = [offset |-> EmptyCoordinates, scale |-> R(1), drawn |-> <<>>]
    /\ touches = <<>>
    /\ pendFrom = "none"
    /\ zoom0 = NoGesture
    /\ pan0 = NoGesture
    /\ pen = NoPen
    /\ nEvents = 0

Next ==
    \/ MouseDown
    \/ MouseMove
    \/ MouseUp
    \/ MouseOut
    \/ TouchStart
    \/ TouchMove
    \/ TouchEnd
    \/ TouchCancel

Spec == Init /\ [][Next]_vars

----------------------------------------------------------------------------
(* Claims *)

\* the steps in which the last contacts lift: only touchend and touchcancel
\* take contacts away
AllLifted == touches /= <<>> /\ touches' = <<>> /\ (TouchEnd \/ TouchCancel)
\* the steps in which handleTouchMove runs on two contacts
TwoContactMove == Len(touches') = 2 /\ TouchMove

\* the steps in which handleTouchStart runs on two contacts
TwoContactStart == Len(touches') = 2 /\ TouchStart

\* C1: a touchend or touchcancel that reports zero remaining contacts leaves
\* the mode IDLE, whichever of DRAWING, PENDING, PANNING or ZOOMING it was in.
C1_AllLiftedReturnsToIdle ==
    [][(AllLifted /\ mode \in {"drawing", "pending", "panning", "zooming"})
          => mode' = "idle"]_vars

\* Scenario B: the pair the gesture starts on and the pair it moves to
ScenarioB_Start == <<P(100, 100), P(200, 100)>>
ScenarioB_Moved == <<P(100, 100), P(260, 100)>>
\* the first move of Scenario B: the machine is as the two-contact touchstart
\* from IDLE left it, under the identity view, and the contacts move once
ScenarioB_Move ==
    /\ mode = "pending" /\ pendFrom = "idle"
    /\ touches = ScenarioB_Start
    /\ gestureInitialDist = R(100) /\ gestureInitialMid = Pt(P(150, 100))
    /\ offset = EmptyCoordinates /\ scale = R(1)
    /\ TouchMove /\ touches' = ScenarioB_Moved

\* C2 as claimed: Scenario B ends in ZOOMING with scale 1 * 160/100 = 1.6.
C2_ScenarioB_Scale8Fifths ==
    [][ScenarioB_Move => (mode' = "zooming" /\ scale' = <<8, 5>>)]_vars

\* C2 as amended: Scenario B ends in ZOOMING with the scale still 1; the move
\* that classifies the gesture only captures the baseline (distance 160,
\* midpoint (180,100), scale 1, offset (0,0)) and leaves the view alone.
C2_ScenarioB_ScaleUnchanged ==
    [][ScenarioB_Move =>
          /\ mode' = "zooming"
          /\ scale' = R(1) /\ offset' = EmptyCoordinates
          /\ pinchStartDist' = R(160) /\ lastScale' = R(1)
          /\ pinchStartMid' = Pt(P(180, 100))]_vars

C2_Witness ==
    /\ mode = "zooming" /\ pendFrom = "none"
    /\ touches = ScenarioB_Moved
    /\ gestureInitialDist = R(100)
    /\ zoom0.dist = R(160) /\ zoom0.scale = R(1) /\ zoom0.offset = EmptyCoordinates
    /\ scale = R(1) /\ offset = EmptyCoordinates

\* C3: after every ZOOMING move the logical point under the current (possibly
\* moved) pinch midpoint is the logical point L that was under the midpoint when
\* ZOOMING was entered.  Stated for the gestures whose baseline distance is not
\* zero, the ones in which the zoom is recomputed.
C3_AnchoredUnderMovingMidpoint ==
    [][(mode = "zooming" /\ TwoContactMove /\ zoom0.dist /= R(0))
          => Logical(Midpoint(touches'), offset', scale') = zoom0.L]_vars

\* C4: after a ZOOMING move whose midpoint is the zoom-start midpoint M, the
\* logical point under M is the one that was under M when ZOOMING was entered,
\* clamped or not.  (This covers every move of a gesture whose midpoint never
\* leaves M.)
C4_AnchoredUnderStationaryMidpoint ==
    [][(mode = "zooming" /\ TwoContactMove /\ Midpoint(touches') = zoom0.mid)
          => Logical(zoom0.mid, offset', scale') = zoom0.L]_vars

\* a stationary-midpoint move has zoomed, and the scale was clamped at 5
C4_Witness ==
    /\ mode = "zooming" /\ zoom0.dist /= R(0)
    /\ Midpoint(touches) = zoom0.mid
    /\ RGt(RDiv(RMul(zoom0.scale, Distance(touches)), zoom0.dist), ZoomMax)
    /\ scale = ZoomMax /\ scale /= zoom0.scale
    /\ offset /= zoom0.offset

\* C5: the scale is always in [0.2, 5], and a ZOOMING move with a non-zero
\* baseline distance sets it to baselineScale * distance / baselineDistance
\* clamped to that band.
C5_ZoomClamping ==
    /\ [](RLe(ZoomMin, scale) /\ RLe(scale, ZoomMax))
    /\ [][(mode = "zooming" /\ TwoContactMove /\ zoom0.dist /= R(0))
            => scale' = Clamped(RDiv(RMul(zoom0.scale, Distance(touches')),
                                     zoom0.dist))]_vars

\* a zoom move to a pinch distance of zero has put the scale at 0.2
C5_Witness ==
    /\ mode = "zooming" /\ zoom0.dist /= R(0)
    /\ Len(touches) = 2 /\ Distance(touches) = R(0)
    /\ scale = ZoomMin /\ zoom0.scale /= ZoomMin

\* C6: from the event that enters PANNING to the event that ends the gesture the
\* scale does not change, and every PANNING move leaves the offset at the offset
\* held on entering PANNING plus the midpoint's displacement since then.
C6_PanPurity ==
    /\ [][(mode = "panning" \/ mode' = "panning") => scale' = scale]_vars
    /\ [][(mode = "panning" /\ TwoContactMove)
            => /\ offset'.x = RAdd(pan0.offset.x,
                                   RSub(Midpoint(touches').x, pan0.mid.x))
               /\ offset'.y = RAdd(pan0.offset.y,
                                   RSub(Midpoint(touches').y, pan0.mid.y))]_vars

\* a pan has moved the view
C6_Witness ==
    /\ mode = "panning" /\ Len(touches) = 2
    /\ Midpoint(touches) /= pan0.mid
    /\ offset /= pan0.offset
    /\ scale = pan0.scale

\* C7: no event changes a committed stroke or its index: the committed list
\* only grows, at its end.
C7_StrokeImmutability ==
    [][/\ Len(strokes') >= Len(strokes)
       /\ SubSeq(strokes', 1, Len(strokes)) = strokes]_vars

\* two strokes are committed and a zoom has run after them
C7_Witness ==
    /\ Len(strokes) = 1
    /\ mode = "zooming" /\ scale /= zoom0.scale

\* C8: a contact goes down from IDLE and does not move, a second contact lands,
\* the second contact ends: the committed strokes are those from before the
\* first contact, and there is no current stroke.
C8_PhantomDotSuppression ==
    (pen.phase = "secondUp" /\ Len(pen.path) = 1)
        => (strokes = pen.strokes0 /\ currentStroke = <<>>)

C8_Witness ==
    /\ pen.phase = "secondUp" /\ Len(pen.path) = 1
    /\ Len(touches) = 1
    /\ strokes = pen.strokes0 /\ Len(strokes) = 1

\* C9: a two-contact touchstart in DRAWING, with a stroke that has received a
\* move, appends exactly that stroke to the committed list, leaves no current
\* stroke, and leaves the mode PENDING.
C9_CutoffCommitsMovedStroke ==
    [][(/\ mode = "drawing" /\ currentStroke /= <<>>
        /\ Len(currentStroke[1].points) >= 2
        /\ TouchStart /\ Len(touches') = 2)
          => /\ strokes' = Append(strokes, currentStroke[1])
             /\ currentStroke' = <<>>
             /\ mode' = "pending"]_vars

C9_Witness ==
    /\ pen.phase = "second" /\ Len(pen.path) = 2
    /\ mode = "pending"
    /\ strokes = Append(pen.strokes0, StrokeOf(pen.path, offset, scale))

\* C10: a contact (or the mouse) goes down at p0 from IDLE, moves to p1..pn and
\* goes up with no other event in between: exactly one stroke is appended, with
\* the points (pi - offset)/scale in order; under the identity view, down at
\* (100,100), move to (150,100), up commits [(100,100), (150,100)].
C10_ScenarioA ==
    /\ pen.phase = "up" =>
          /\ strokes = Append(pen.strokes0, StrokeOf(pen.path, offset, scale))
          /\ currentStroke = <<>> /\ mode = "idle"
    /\ (/\ pen.phase = "up" /\ offset = EmptyCoordinates /\ scale = R(1)
        /\ pen.path = <<P(100, 100), P(150, 100)>>)
          => strokes[Len(strokes)].points = <<Pt(P(100, 100)), Pt(P(150, 100))>>

\* Scenario A has run, by touch
C10_Witness ==
    /\ pen.phase = "up" /\ pen.src = "touch"
    /\ pen.path = <<P(100, 100), P(150, 100)>>
    /\ offset = EmptyCoordinates /\ scale = R(1)
    /\ strokes = <<[points |-> <<Pt(P(100, 100)), Pt(P(150, 100))>>,
                    color |-> StrokeStyle, width |-> LineWidth]>>

\* C11: classification is sticky.  From PANNING the mode only stays PANNING or
\* goes to IDLE, from ZOOMING it only stays ZOOMING or goes to IDLE, and no event
\* that leaves at least two contacts down (a move, an extra contact landing, a
\* contact lifting) changes a PANNING or ZOOMING mode at all.
C11_StickyClassification ==
    /\ [][mode = "panning" => mode' \in {"panning", "idle"}]_vars
    /\ [][mode = "zooming" => mode' \in {"zooming", "idle"}]_vars
    /\ [][(mode \in {"panning", "zooming"} /\ Len(touches') >= 2) => mode' = mode]_vars

\* a pan has moved the view onto a pinch of another distance than the gesture
\* began with, a third contact is down, and the mode is still PANNING
C11_Witness ==
    /\ mode = "panning" /\ Len(touches) = 3
    /\ offset /= pan0.offset
    /\ Distance(touches) /= gestureInitialDist

\* logical points to map to the screen and back: on and off the pixel grid
LogicalProbes ==
    {Pt(P(0, 0)), Pt(P(100, 100)), [x |-> <<-7, 3>>, y |-> <<1, 2>>]}

\* C12: under every reachable view (offset, scale), a logical point p painted at
\* offset + scale * p is mapped back to p by the input mapping
\* (screen - offset) / scale; and that input mapping is what getCoordinates
\* computes from a pointer position.
C12_CoordinateRoundTrip ==
    /\ \A p \in LogicalProbes :
          Logical(Render(p, offset, scale), offset, scale) = p
    /\ \A s \in MousePoints :
          /\ getCoordinates(This, MouseEvent(s)) = Logical(Pt(s), offset, scale)
          /\ Render(getCoordinates(This, MouseEvent(s)), offset, scale) = Pt(s)

\* a view that is not the identity and whose scale is not a power of two, left
\* behind by a finished gesture
C12_Witness ==
    /\ mode = "idle"
    /\ scale = <<11, 8>> /\ offset /= EmptyCoordinates

\* the mode the classification rule names for a two-contact sample t, given the
\* distance d0 and the midpoint m0 of the snapshot: threshold 10, distance first
Classified(d0, m0, t) ==
    LET mx == RSub(Midpoint(t).x, m0.x)
        my == RSub(Midpoint(t).y, m0.y)
    IN  IF RGt(MathAbs(RSub(Distance(t), d0)), R(10)) THEN "zooming"
        ELSE IF RGt(RAdd(RMul(mx, mx), RMul(my, my)), R(100)) THEN "panning"
        ELSE "pending"

\* two-contact samples around the pair (100,100), (200,100): the distance grown
\* by exactly 10 and by 11, the midpoint moved by exactly 10 and by 11, and both
ClassifyProbes ==
    { <<P(100, 100), P(210, 100)>>,
      <<P(100, 100), P(211, 100)>>,
      <<P(110, 100), P(210, 100)>>,
      <<P(111, 100), P(211, 100)>>,
      <<P(100, 110), P(200, 110)>>,
      <<P(100, 111), P(200, 111)>>,
      <<P(120, 100), P(240, 100)>> }

\* C13: a two-contact touchstart snapshots the pinch distance and the midpoint
\* and nothing but the next such touchstart changes the snapshot; a two-contact
\* move in PENDING leaves the mode ZOOMING if |distance - initialDistance| > 10
\* (also when the midpoint moved more than 10), else PANNING if the midpoint
\* moved more than 10, else PENDING, and offset and scale are unchanged when it
\* stays PENDING.  The rule is checked on the moves the host delivers and, in
\* every PENDING state, on the probe samples the host could deliver next.
C13_GestureClassification ==
    /\ [][TwoContactStart
            => /\ mode' = "pending"
               /\ gestureInitialDist' = Distance(touches')
               /\ gestureInitialMid' = Midpoint(touches')]_vars
    /\ [][(mode = "pending" /\ ~TwoContactStart)
            => /\ gestureInitialDist' = gestureInitialDist
               /\ gestureInitialMid' = gestureInitialMid]_vars
    /\ [][(mode = "pending" /\ TwoContactMove)
            => /\ mode' = Classified(gestureInitialDist, gestureInitialMid, touches')
               /\ mode' = "pending" => (offset' = offset /\ scale' = scale)]_vars
    /\ [](mode = "pending" =>
            \A t \in ClassifyProbes :
                LET w == handleTouchMove(This, TouchEvent(t))
                IN  /\ w.mode = Classified(gestureInitialDist, gestureInitialMid, t)
                    /\ w.mode = "pending" => (w.offset = offset /\ w.scale = scale))

\* a sample in which both the distance and the midpoint passed the threshold
\* has been classified as a zoom
C13_Witness ==
    /\ mode = "zooming"
    /\ gestureInitialDist = R(100) /\ gestureInitialMid = Midpoint(<<P(100, 100), P(160, 180)>>)
    /\ touches = <<P(40, 100), P(260, 100)>>
    /\ zoom0.dist = R(220) /\ zoom0.mid = Pt(P(150, 100))

\* C14: every event handled while the mode is IDLE, DRAWING or PENDING leaves
\* offset and scale unchanged (the events that enter PANNING or ZOOMING and every
\* stroke begin, extend, commit and discard among them), and so does the event
\* that ends a pan or a zoom; the gesture that starts next takes the view it
\* finds as its baseline.
C14_ViewChangesOnlyInGestures ==
    /\ [][(mode \in {"idle", "drawing", "pending"})
            => (offset' = offset /\ scale' = scale)]_vars
    /\ [][(mode \in {"panning", "zooming"} /\ mode' = "idle")
            => (offset' = offset /\ scale' = scale)]_vars
    /\ [][(mode = "pending" /\ mode' = "zooming")
            => (lastScale' = scale /\ pinchStartOffset' = offset)]_vars
    /\ [][(mode = "pending" /\ mode' = "panning") => lastOffset' = offset]_vars

\* a stroke is being drawn under the view that a finished zoom left behind
C14_Witness ==
    /\ mode = "drawing" /\ currentStroke /= <<>>
    /\ scale /= R(1) /\ offset /= EmptyCoordinates
    /\ canvas.scale = scale /\ canvas.offset = offset

\* C15: in every state between handlers there is a current stroke exactly when
\* the mode is DRAWING; and the event that ends a drawing leaves no current
\* stroke and leaves the committed list either as it was (dropped) or as it was
\* plus the current stroke, once, at the end (committed).
C15_CurrentStrokeIffDrawing ==
    /\ []((currentStroke /= <<>>) <=> (mode = "drawing"))
    /\ [](Len(currentStroke) <= 1)
    /\ [][(mode = "drawing" /\ mode' /= "drawing")
            => /\ currentStroke' = <<>>
               /\ \/ strokes' = strokes
                  \/ strokes' = Append(strokes, currentStroke[1])]_vars

\* one drawing has been committed by lifting and the next one dropped by the
\* two-contact cut-off
C15_Witness ==
    /\ pen.phase = "second" /\ Len(pen.path) = 1
    /\ Len(pen.strokes0) = 1 /\ strokes = pen.strokes0
    /\ mode = "pending" /\ currentStroke = <<>>

\* C16: at the end of every event handler the state last passed to the renderer
\* (committed strokes, current stroke, offset, scale) is the controller's state,
\* beginning a new stroke from IDLE included.
C16_RenderedStateIsCurrent ==
    /\ canvas.drawn = strokes \o currentStroke
    /\ canvas.offset = offset
    /\ canvas.scale = scale

\* C17: when the pinch distance captured on entering ZOOMING is zero, every
\* later ZOOMING move of the gesture leaves offset, scale and mode unchanged;
\* no quotient by the baseline reaches the state: offset and scale stay finite
\* numbers in every state.
C17_ZeroBaselineShortCircuit ==
    /\ [][(mode = "zooming" /\ zoom0.dist = R(0) /\ TwoContactMove)
            => /\ offset' = offset /\ scale' = scale /\ mode' = "zooming"
               /\ canvas' = canvas]_vars
    /\ [](IsFinite(scale) /\ IsFinite(offset.x) /\ IsFinite(offset.y))
    /\ [](mode = "zooming" => pinchStartDist = zoom0.dist)

\* ZOOMING was entered on two coinciding contacts, and the contacts have since
\* moved apart
C17_Witness ==
    /\ mode = "zooming" /\ zoom0.dist = R(0) /\ pinchStartDist = R(0)
    /\ Len(touches) = 2 /\ Distance(touches) = R(220)
    /\ scale = zoom0.scale /\ offset = zoom0.offset

\* what C18 says an invalid-state call leaves alone
C18_Untouched ==
    /\ mode' = mode /\ strokes' = strokes /\ currentStroke' = currentStroke
    /\ offset' = offset /\ scale' = scale

\* C18: a mouse down or a single-contact touchstart while the mode is not IDLE,
\* and a mouse move, mouse up or mouse out while the mode is not DRAWING, leave
\* mode, committed strokes, current stroke, offset and scale unchanged.
C18_InvalidStateCallsAreNoOps ==
    /\ [][(mode /= "idle" /\ touches' = touches /\ MouseDown) => C18_Untouched]_vars
    /\ [][(mode /= "idle" /\ Len(touches') = 1 /\ TouchStart) => C18_Untouched]_vars
    /\ [][(mode /= "drawing" /\ touches' = touches
              /\ (MouseMove \/ MouseUp \/ MouseOut)) => C18_Untouched]_vars

\* a stroke was begun and a second down arrived while it was being drawn: the
\* stroke still has its one point and nothing has moved
C18_Witness ==
    /\ mode = "drawing" /\ pen.phase = "none"
    /\ Len(touches) = 1
    /\ Len(currentStroke[1].points) = 1 /\ hasMoved = FALSE

\* C19: in every state every committed stroke has at least one point, and so has
\* every stroke the renderer was last given; and a stroke committed by the
\* two-contact cut-off has at least two points.
C19_CommittedStrokesHavePoints ==
    /\ [](\A i \in 1..Len(strokes) : Len(strokes[i].points) >= 1)
    /\ [](\A i \in 1..Len(canvas.drawn) : Len(canvas.drawn[i].points) >= 1)
    /\ [][(mode = "drawing" /\ TwoContactStart /\ strokes' /= strokes)
            => /\ Len(strokes') = Len(strokes) + 1
               /\ Len(strokes'[Len(strokes')].points) >= 2]_vars

\* a tap has committed a stroke of one point, and the cut-off has then committed
\* a stroke of two
C19_Witness ==
    /\ pen.phase = "second" /\ Len(pen.path) = 2
    /\ Len(strokes) = 2
    /\ Len(strokes[1].points) = 1 /\ Len(strokes[2].points) = 2

\* C20: within one ZOOMING gesture the offset and the scale after a move are
\* those that a single move from the baseline to the same contact positions
\* leaves, whatever samples were delivered in between.
C20_ZoomPathIndependence ==
    [][(mode = "zooming" /\ zoom0.dist /= R(0) /\ TwoContactMove)
          => LET entered == [This EXCEPT !.offset = zoom0.offset,
                                         !.scale = zoom0.scale]
                 direct == continueZooming(entered, TouchEvent(touches'))
             IN  offset' = direct.offset /\ scale' = direct.scale]_vars

====
